---------------------------- MODULE Spec2Model ----------------------------
(***************************************************************************)
(* A model of src/processor/disassembler_objdump.cc: the instruction-text  *)
(* tokenizer, the memory-operand address evaluator and the                 *)
(* DisassemblerObjdump object built on them.                               *)
(*                                                                         *)
(* A std::string is a sequence of one-character strings, so that the two   *)
(* regular expressions and strtoull are modelled by what they do to the    *)
(* characters.  uint64_t arithmetic is arithmetic modulo UInt64Mod.        *)
(***************************************************************************)
EXTENDS Integers, Sequences, FiniteSets, TLC

(***************************************************************************)
(* Widths and program constants.                                           *)
(***************************************************************************)

\* The modulus of uint64_t arithmetic, scaled from 2^64 to 16 bits so that
\* every wrap-around case is within reach of the model checker.
UInt64Mod == 65536

\* const size_t kMaxX86InstructionLength = 15;
kMaxX86InstructionLength == 15

\* The longest token list drawn as a tokenizer input.
MaxTokens == 4

\* The number of Calculate*Address calls followed on one instance.
MaxCalls == 3

(***************************************************************************)
(* Character classes of std::regex (ECMAScript grammar, "C" locale).       *)
(***************************************************************************)

LowerChars ==
  {"a","b","c","d","e","f","g","h","i","j","k","l","m",
   "n","o","p","q","r","s","t","u","v","w","x","y","z"}

UpperChars ==
  {"A","B","C","D","E","F","G","H","I","J","K","L","M",
   "N","O","P","Q","R","S","T","U","V","W","X","Y","Z"}

DigitChars == {"0","1","2","3","4","5","6","7","8","9"}

\* \w
WordChars == LowerChars \cup UpperChars \cup DigitChars \cup {"_"}

\* \s
SpaceChars == {" ", "\t", "\n", "\r", "\f"}

\* [0-9a-f]
LowerHexChars == DigitChars \cup {"a","b","c","d","e","f"}

\* The character at position i of s, or "" past either end (no character).
At(s, i) == IF i \in 1..Len(s) THEN s[i] ELSE ""

\* The first position at or after i whose character is not in class: the end
\* of the greedy run class+ (or class*) that starts at i.
RECURSIVE RunEnd(_, _, _)
RunEnd(s, i, class) ==
  IF i <= Len(s) /\ s[i] \in class THEN RunEnd(s, i + 1, class) ELSE i

(***************************************************************************)
(* IsInstructionPrefix, IsOperandSize                                      *)
(***************************************************************************)

IsInstructionPrefix(token) ==
  \/ token = <<"l","o","c","k">>
  \/ token = <<"r","e","p">>
  \/ token = <<"r","e","p","z">>
  \/ token = <<"r","e","p","n","z">>

IsOperandSizeNoPTR(token) ==
  \/ token = <<"B","Y","T","E">>
  \/ token = <<"W","O","R","D">>
  \/ token = <<"D","W","O","R","D">>
  \/ token = <<"Q","W","O","R","D">>

IsOperandSize(token) ==
  \/ token = <<"B","Y","T","E">>
  \/ token = <<"W","O","R","D">>
  \/ token = <<"D","W","O","R","D">>
  \/ token = <<"Q","W","O","R","D">>
  \/ token = <<"P","T","R">>

(***************************************************************************)
(* TokenizeInstruction                                                     *)
(***************************************************************************)

\* std::sregex_iterator over token_regex "((?:[^\s,]+)|,)(?:\s)*": the
\* successive non-overlapping matches from position i on, each reduced to
\* its capture group 1.  A match starts at the first character that is not
\* whitespace; it is a single comma, or the greedy run of characters that
\* are neither whitespace nor a comma; the whitespace after it is consumed.
RECURSIVE TokenMatches(_, _)
TokenMatches(instruction, i) ==
  LET start == RunEnd(instruction, i, SpaceChars) IN
  IF start > Len(instruction) THEN <<>>
  ELSE IF instruction[start] = ","
       THEN <<SubSeq(instruction, start, start)>>
              \o TokenMatches(instruction, start + 1)
       ELSE LET NotTokenChars == SpaceChars \cup {","}
                RECURSIVE TokenEnd(_)
                TokenEnd(j) ==
                  IF j <= Len(instruction) /\ instruction[j] \notin NotTokenChars
                  THEN TokenEnd(j + 1) ELSE j
                end == TokenEnd(start)
            IN <<SubSeq(instruction, start, end - 1)>>
                 \o TokenMatches(instruction, end)

\* The locals of TokenizeInstruction when the loop is entered: the three
\* outputs cleared, found_comma false, and not yet returned.
TokenizeStart ==
  [operation |-> <<>>, dest |-> <<>>, src |-> <<>>,
   found_comma |-> FALSE, returned |-> FALSE]

\* One iteration of the for loop, on one token.
TokenizeStepTakesCommaAsJunk(st, token) ==
  IF Len(st.operation) = 0
  THEN IF IsInstructionPrefix(token) THEN st
       ELSE [st EXCEPT !.operation = token]
  ELSE IF Len(st.dest) = 0
  THEN IF IsOperandSize(token) THEN st
       ELSE [st EXCEPT !.dest = token]
  ELSE IF ~st.found_comma
  THEN IF token = <<",">> THEN [st EXCEPT !.found_comma = TRUE]
       ELSE [st EXCEPT !.returned = TRUE]
  ELSE IF Len(st.src) = 0
  THEN IF IsOperandSize(token) THEN st
       ELSE [st EXCEPT !.src = token]
  ELSE st

TokenizeStep(st, token) ==
  IF Len(st.operation) = 0
  THEN IF IsInstructionPrefix(token) THEN st
       ELSE [st EXCEPT !.operation = token]
  ELSE IF Len(st.dest) = 0
  THEN IF IsOperandSize(token) THEN st
       ELSE [st EXCEPT !.dest = token]
  ELSE IF ~st.found_comma
  THEN IF token = <<",">> THEN [st EXCEPT !.found_comma = TRUE]
       ELSE [st EXCEPT !.returned = TRUE]   \* return false (expected comma)
  ELSE IF Len(st.src) = 0
  THEN IF IsOperandSize(token) THEN st
       ELSE [st EXCEPT !.src = token]
  ELSE IF token = <<",">> THEN [st EXCEPT !.returned = TRUE]  \* return false
       ELSE st                              \* junk after the last operand

\* The for loop over the tokens, left at the first iteration that returns.
RECURSIVE TokenizeLoop(_, _, _)
TokenizeLoop(tokens, i, st) ==
  IF i > Len(tokens) \/ st.returned THEN st
  ELSE TokenizeLoop(tokens, i + 1, TokenizeStep(st, tokens[i]))

\* The return value, and the three reference outputs as they stand when the
\* function returns (on a failure too: they are not cleared again).
TokenizeInstruction(instruction) ==
  LET st == TokenizeLoop(TokenMatches(instruction, 1), 1, TokenizeStart) IN
  [ok        |-> ~st.returned /\ ~(st.found_comma /\ Len(st.src) = 0),
   operation |-> st.operation,
   dest      |-> st.dest,
   src       |-> st.src]

(***************************************************************************)
(* GetSegmentAddress, GetRegisterValue                                     *)
(*                                                                         *)
(* A DumpContext is [cpu |-> ..., raw |-> r], r the raw context record of  *)
(* that architecture (MDRawContextX86 or MDRawContextAMD64).  A lookup     *)
(* returns its bool and the value left in its reference output, which      *)
(* starts at 0 in every caller.                                            *)
(***************************************************************************)

MD_CONTEXT_X86 == "MD_CONTEXT_X86"
MD_CONTEXT_AMD64 == "MD_CONTEXT_AMD64"
MD_CONTEXT_ARM == "MD_CONTEXT_ARM"

Unsupported == [ok |-> FALSE, value |-> 0]

Found(v) == [ok |-> TRUE, value |-> v]

\* GetSegmentAddressX86 with the "fs" branch reading ds.
GetSegmentAddressX86FsReadsDs(context, segment_name) ==
  IF segment_name = <<"d","s">> THEN Found(context.raw.ds)
  ELSE IF segment_name = <<"e","s">> THEN Found(context.raw.es)
  ELSE IF segment_name = <<"f","s">> THEN Found(context.raw.ds)
  ELSE IF segment_name = <<"g","s">> THEN Found(context.raw.gs)
  ELSE Unsupported

GetSegmentAddressX86(context, segment_name) ==
  IF segment_name = <<"d","s">> THEN Found(context.raw.ds)
  ELSE IF segment_name = <<"e","s">> THEN Found(context.raw.es)
  ELSE IF segment_name = <<"f","s">> THEN Found(context.raw.fs)
  ELSE IF segment_name = <<"g","s">> THEN Found(context.raw.gs)
  ELSE Unsupported

\* GetSegmentAddressAMD64 with the commented-out "fs" branch alive.
GetSegmentAddressAMD64WithFs(context, segment_name) ==
  IF segment_name = <<"d","s">> THEN Found(0)
  ELSE IF segment_name = <<"e","s">> THEN Found(0)
  ELSE IF segment_name = <<"f","s">> THEN Found(0)
  ELSE Unsupported

GetSegmentAddressAMD64(context, segment_name) ==
  IF segment_name = <<"d","s">> THEN Found(0)
  ELSE IF segment_name = <<"e","s">> THEN Found(0)
  ELSE Unsupported

GetSegmentAddress(context, segment_name) ==
  IF context.cpu = MD_CONTEXT_X86
  THEN GetSegmentAddressX86(context, segment_name)
  ELSE IF context.cpu = MD_CONTEXT_AMD64
  THEN GetSegmentAddressAMD64(context, segment_name)
  ELSE Unsupported

GetRegisterValueX86(context, register_name) ==
  IF register_name = <<"e","a","x">> THEN Found(context.raw.eax)
  ELSE IF register_name = <<"e","b","x">> THEN Found(context.raw.ebx)
  ELSE IF register_name = <<"e","c","x">> THEN Found(context.raw.ecx)
  ELSE IF register_name = <<"e","d","x">> THEN Found(context.raw.edx)
  ELSE IF register_name = <<"e","d","i">> THEN Found(context.raw.edi)
  ELSE IF register_name = <<"e","s","i">> THEN Found(context.raw.esi)
  ELSE IF register_name = <<"e","b","p">> THEN Found(context.raw.ebp)
  ELSE IF register_name = <<"e","s","p">> THEN Found(context.raw.esp)
  ELSE IF register_name = <<"e","i","p">> THEN Found(context.raw.eip)
  ELSE Unsupported

GetRegisterValueAMD64(context, register_name) ==
  IF register_name = <<"r","a","x">> THEN Found(context.raw.rax)
  ELSE IF register_name = <<"r","b","x">> THEN Found(context.raw.rbx)
  ELSE IF register_name = <<"r","c","x">> THEN Found(context.raw.rcx)
  ELSE IF register_name = <<"r","d","x">> THEN Found(context.raw.rdx)
  ELSE IF register_name = <<"r","d","i">> THEN Found(context.raw.rdi)
  ELSE IF register_name = <<"r","s","i">> THEN Found(context.raw.rsi)
  ELSE IF register_name = <<"r","b","p">> THEN Found(context.raw.rbp)
  ELSE IF register_name = <<"r","s","p">> THEN Found(context.raw.rsp)
  ELSE IF register_name = <<"r","8">> THEN Found(context.raw.r8)
  ELSE IF register_name = <<"r","9">> THEN Found(context.raw.r9)
  ELSE IF register_name = <<"r","1","0">> THEN Found(context.raw.r10)
  ELSE IF register_name = <<"r","1","1">> THEN Found(context.raw.r11)
  ELSE IF register_name = <<"r","1","2">> THEN Found(context.raw.r12)
  ELSE IF register_name = <<"r","1","3">> THEN Found(context.raw.r13)
  ELSE IF register_name = <<"r","1","4">> THEN Found(context.raw.r14)
  ELSE IF register_name = <<"r","1","5">> THEN Found(context.raw.r15)
  ELSE IF register_name = <<"r","i","p">> THEN Found(context.raw.rip)
  ELSE Unsupported

GetRegisterValue(context, register_name) ==
  IF context.cpu = MD_CONTEXT_X86
  THEN GetRegisterValueX86(context, register_name)
  ELSE IF context.cpu = MD_CONTEXT_AMD64
  THEN GetRegisterValueAMD64(context, register_name)
  ELSE Unsupported

(***************************************************************************)
(* strtoull(text, nullptr, 0)                                              *)
(***************************************************************************)

\* The value of one digit character; 16 for a character that is no digit.
DigitValue(c) ==
  CASE c = "0" -> 0 [] c = "1" -> 1 [] c = "2" -> 2 [] c = "3" -> 3
    [] c = "4" -> 4 [] c = "5" -> 5 [] c = "6" -> 6 [] c = "7" -> 7
    [] c = "8" -> 8 [] c = "9" -> 9 [] c = "a" -> 10 [] c = "b" -> 11
    [] c = "c" -> 12 [] c = "d" -> 13 [] c = "e" -> 14 [] c = "f" -> 15
    [] c = "A" -> 10 [] c = "B" -> 11 [] c = "C" -> 12 [] c = "D" -> 13
    [] c = "E" -> 14 [] c = "F" -> 15
    [] OTHER -> 16

\* The digits from position i on are accumulated in the given base until the
\* first character that is no digit of that base; a value that does not fit
\* saturates at ULLONG_MAX (ERANGE).
RECURSIVE StrtoullDigits(_, _, _, _)
StrtoullDigits(text, i, base, acc) ==
  IF i > Len(text) \/ DigitValue(text[i]) >= base THEN acc
  ELSE LET d == DigitValue(text[i]) IN
       IF acc > ((UInt64Mod - 1) - d) \div base
       THEN UInt64Mod - 1
       ELSE StrtoullDigits(text, i + 1, base, acc * base + d)


\* Base 0: a "0x" prefix followed by a hexadecimal digit selects base 16,
\* any other leading "0" selects base 8, anything else base 10.
StrtoullBase0(text) ==
  IF At(text, 1) = "0" /\ At(text, 2) \in {"x", "X"}
       /\ DigitValue(At(text, 3)) < 16
  THEN StrtoullDigits(text, 3, 16, 0)
  ELSE IF At(text, 1) = "0"
  THEN StrtoullDigits(text, 1, 8, 0)
  ELSE StrtoullDigits(text, 1, 10, 0)

(***************************************************************************)
(* CalculateAddress                                                        *)
(***************************************************************************)

NoMatch ==
  [matched |-> FALSE, segment_name |-> <<>>, register_name |-> <<>>,
   index_name |-> <<>>, index_stride |-> <<>>, offset_sign |-> <<>>,
   offset |-> <<>>]

\* std::regex_match(expression, match, expression_regex) with
\*   ^(?:(\ws):)?  \[(\w+)  (?:\+(\w+)(?:\*(\d+)))?  (?:([\+-])(0x[0-9a-f]+))?  \]$
\* and the six capture groups (an unmatched group is the empty string).
\* Every group is delimited by characters outside its own class, so the
\* greedy run is the only candidate for each and the match is found by one
\* scan from left to right, in the five steps below.

\* (?:(\ws):)?  matches at the start of the expression.
HasSegment(expression) ==
  /\ At(expression, 1) \in WordChars
  /\ At(expression, 2) = "s"
  /\ At(expression, 3) = ":"

\* (?:\+(\w+)(?:\*(\d+)))?  matches at b: the index name ends before ie and
\* the stride before de.
HasIndex(expression, b, ie, de) ==
  /\ At(expression, b) = "+"
  /\ ie > b + 1
  /\ At(expression, ie) = "*"
  /\ de > ie + 1

\* (?:([\+-])(0x[0-9a-f]+))?  matches at p3: the offset ends before he.
HasOffset(expression, p3, he) ==
  /\ At(expression, p3) \in {"+", "-"}
  /\ At(expression, p3 + 1) = "0"
  /\ At(expression, p3 + 2) = "x"
  /\ he > p3 + 3

\* The rest of the match, the offset group ending before p4: "]" and the end.
MatchClose(expression, p1, b, has_index, ie, de, p3, has_offset, he, p4) ==
  IF /\ At(expression, p1) = "["
     /\ b > p1 + 1
     /\ At(expression, p4) = "]"
     /\ p4 = Len(expression)
  THEN [matched       |-> TRUE,
        segment_name  |-> IF p1 = 4 THEN SubSeq(expression, 1, 2) ELSE <<>>,
        register_name |-> SubSeq(expression, p1 + 1, b - 1),
        index_name    |-> IF has_index THEN SubSeq(expression, b + 1, ie - 1)
                          ELSE <<>>,
        index_stride  |-> IF has_index THEN SubSeq(expression, ie + 1, de - 1)
                          ELSE <<>>,
        offset_sign   |-> IF has_offset THEN SubSeq(expression, p3, p3)
                          ELSE <<>>,
        offset        |-> IF has_offset THEN SubSeq(expression, p3 + 1, he - 1)
                          ELSE <<>>]
  ELSE NoMatch

\* The match from the offset group on, the index group ending before p3.
MatchOffset(expression, p1, b, has_index, ie, de, p3, he) ==
  MatchClose(expression, p1, b, has_index, ie, de, p3,
             HasOffset(expression, p3, he), he,
             IF HasOffset(expression, p3, he) THEN he ELSE p3)

\* The match from the index group on, the base name ending before b.
MatchIndex(expression, p1, b, ie, de) ==
  MatchOffset(expression, p1, b, HasIndex(expression, b, ie, de), ie, de,
              IF HasIndex(expression, b, ie, de) THEN de ELSE b,
              RunEnd(expression,
                     (IF HasIndex(expression, b, ie, de) THEN de ELSE b) + 3,
                     LowerHexChars))

\* The match from "[" on, which is at p1.
MatchBracket(expression, p1, b, ie) ==
  MatchIndex(expression, p1, b, ie, RunEnd(expression, ie + 1, DigitChars))

MatchBase(expression, p1, b) ==
  MatchBracket(expression, p1, b, RunEnd(expression, b + 1, WordChars))

ExpressionMatch(expression) ==
  IF HasSegment(expression)
  THEN MatchBase(expression, 4, RunEnd(expression, 5, WordChars))
  ELSE MatchBase(expression, 1, RunEnd(expression, 2, WordChars))

\* What a call leaves behind: the bool it returns, the value of the
\* reference output `address`, and (for the properties about them) the
\* locals index_stride_value and offset_value it computed.
CalcResult(ok, address, stride_value, offset_value) ==
  [ok |-> ok, address |-> address,
   index_stride_value |-> stride_value, offset_value |-> offset_value]

\* The body of CalculateAddress from its second statement on, `address`
\* holding `cleared` when it is entered.  Every early return leaves `address`
\* as it is; the last statements assign it.
CalculateAddressBody(context, expression, cleared) ==
  LET match == ExpressionMatch(expression)
      segment == IF Len(match.segment_name) > 0
                 THEN GetSegmentAddress(context, match.segment_name)
                 ELSE Found(0)
      register == GetRegisterValue(context, match.register_name)
      index == IF Len(match.index_name) > 0
               THEN GetRegisterValue(context, match.index_name)
               ELSE Found(0)
      index_stride_value == IF Len(match.index_stride) > 0
                            THEN StrtoullBase0(match.index_stride) ELSE 1
      offset_value == IF Len(match.offset) > 0
                      THEN StrtoullBase0(match.offset) ELSE 0
      sum == (segment.value + register.value
                + ((index.value * index_stride_value) % UInt64Mod)) % UInt64Mod
  IN IF ~match.matched THEN CalcResult(FALSE, cleared, 1, 0)
     ELSE IF ~segment.ok THEN CalcResult(FALSE, cleared, 1, 0)
     ELSE IF ~register.ok THEN CalcResult(FALSE, cleared, 1, 0)
     ELSE IF ~index.ok THEN CalcResult(FALSE, cleared, 1, 0)
     ELSE CalcResult(TRUE,
            IF match.offset_sign = <<"+">>
            THEN (sum + offset_value) % UInt64Mod
            ELSE IF match.offset_sign = <<"-">>
            THEN (sum - offset_value) % UInt64Mod
            ELSE sum,
            index_stride_value, offset_value)

\* CalculateAddress without its first statement, `address = 0`.
CalculateAddressNoReset(context, expression, address_in) ==
  CalculateAddressBody(context, expression, address_in)

\* address_in is the content of the caller's variable before the call; the
\* first statement, `address = 0`, overwrites it.
CalculateAddress(context, expression, address_in) ==
  CalculateAddressBody(context, expression, 0)

(***************************************************************************)
(* The state.                                                              *)
(*                                                                         *)
(* One DisassemblerObjdump instance and its caller, and one call of each   *)
(* of the two static functions TokenizeInstruction and CalculateAddress.   *)
(***************************************************************************)

VARIABLES
  pc,          \* "unconstructed" until the constructor has returned
  operation_,  \* the instance's fields
  dest_,
  src_,
  ctor,        \* what the constructor call was given and what it did
  address,     \* the caller's uint64_t handed to Calculate*Address
  last,        \* the last Calculate*Address call and what it returned
  seen,        \* per (function, context): what its first call returned
  calls,       \* the number of Calculate*Address calls so far
  tok_in,      \* the input of the TokenizeInstruction call
  tok_out,     \* its return value and outputs
  calc_in,     \* the input of the CalculateAddress call
  calc_out     \* its return value and output

vars == <<pc, operation_, dest_, src_, ctor, address, last, seen, calls,
          tok_in, tok_out, calc_in, calc_out>>

(***************************************************************************)
(* CPU contexts.                                                           *)
(***************************************************************************)

\* An x86 context with esi = 0x1000, edi = 0x10, fs = 0x2000 and every other
\* register a value of its own.
ContextX86 ==
  [cpu |-> MD_CONTEXT_X86,
   raw |-> [eax |-> 1, ebx |-> 2, ecx |-> 3, edx |-> 5, edi |-> 16,
            esi |-> 4096, ebp |-> 7, esp |-> 11, eip |-> 13,
            ds |-> 17, es |-> 19, fs |-> 8192, gs |-> 23]]

\* An x86 context with esi = 0x10 and eax = 0.
ContextX86Low ==
  [cpu |-> MD_CONTEXT_X86,
   raw |-> [eax |-> 0, ebx |-> 4, ecx |-> 6, edx |-> 9, edi |-> 8192,
            esi |-> 16, ebp |-> 10, esp |-> 12, eip |-> 14,
            ds |-> 0, es |-> 32, fs |-> 64, gs |-> 128]]

\* An x86-64 context whose rax and rcx hold the largest uint64_t.
ContextAMD64 ==
  [cpu |-> MD_CONTEXT_AMD64,
   raw |-> [rax |-> UInt64Mod - 1, rbx |-> 256, rcx |-> UInt64Mod - 1,
            rdx |-> 3, rdi |-> 5, rsi |-> 4096, rbp |-> 7, rsp |-> 11,
            r8 |-> 21, r9 |-> 22, r10 |-> 23, r11 |-> 24, r12 |-> 25,
            r13 |-> 26, r14 |-> 27, r15 |-> 28, rip |-> 13]]

\* A context of an architecture the evaluator does not support.
ContextARM == [cpu |-> MD_CONTEXT_ARM, raw |-> [iregs |-> <<>>]]

Contexts ==
  [x86 |-> ContextX86, x86low |-> ContextX86Low,
   amd64 |-> ContextAMD64, arm |-> ContextARM]

ContextNames == DOMAIN Contexts

(***************************************************************************)
(* The constructor.                                                        *)
(***************************************************************************)

\* MemoryRegion::GetMemoryAtAddress(address, uint8_t*): whether the byte at
\* address can be read.  The region holds the bytes base .. base + size - 1.
GetMemoryAtAddress(memory_region, addr) ==
  addr >= memory_region.base /\ addr - memory_region.base < memory_region.size

\* The constructor's bounds check taken with < in place of <=.
AddressOutsideRegionOffByOne(memory_region, addr) ==
  \/ addr < memory_region.base
  \/ (memory_region.base + memory_region.size) % UInt64Mod < addr

\* The constructor's bounds check: true when it returns at once.
AddressOutsideRegion(memory_region, addr) ==
  \/ addr < memory_region.base
  \/ (memory_region.base + memory_region.size) % UInt64Mod <= addr

\* The value of ip_bytes_length when the read loop is left: the number of
\* consecutive bytes read from addr on, from n upwards.
RECURSIVE ReadLoop(_, _, _)
ReadLoop(memory_region, addr, n) ==
  IF n < kMaxX86InstructionLength
       /\ GetMemoryAtAddress(memory_region, (addr + n) % UInt64Mod)
  THEN ReadLoop(memory_region, addr, n + 1)
  ELSE n

\* ip_bytes after the loop: element i + 1 is the byte read from addr + i,
\* written <<"byte", addr + i>>, or the 0 the array was initialised with.
IpBytes(addr, ip_bytes_length) ==
  [i \in 1..kMaxX86InstructionLength |->
     IF i <= ip_bytes_length THEN <<"byte", (addr + i - 1) % UInt64Mod>>
     ELSE <<"zero">>]

ObjdumpFailed == [ran |-> FALSE, text |-> <<>>]

ObjdumpPrinted(text) == [ran |-> TRUE, text |-> text]

\* DisassembleInstruction.  objdump is what the external objdump run comes
\* to: ObjdumpFailed when a temporary file, the command or the search for an
\* instruction line fails, else the text of the first instruction line.
DisassembleInstruction(cpu, raw_bytes, raw_bytes_len, objdump) ==
  IF raw_bytes_len = 0 THEN [ok |-> FALSE, instruction |-> <<>>]
  ELSE IF cpu \notin {MD_CONTEXT_X86, MD_CONTEXT_AMD64}
  THEN [ok |-> FALSE, instruction |-> <<>>]
  ELSE IF ~objdump.ran THEN [ok |-> FALSE, instruction |-> <<>>]
  ELSE [ok |-> TRUE, instruction |-> objdump.text]

\* The byte count the constructor passes to DisassembleInstruction.
DisassembledLength(ip_bytes_length) == kMaxX86InstructionLength

NotConstructed ==
  [cpu |-> MD_CONTEXT_X86, memory_region |-> [base |-> 0, size |-> 0],
   address |-> 0, rejected |-> FALSE, ip_bytes_length |-> 0,
   raw_bytes |-> <<>>, raw_bytes_len |-> 0, objdump |-> ObjdumpFailed,
   disassembled |-> FALSE, tokenized |-> FALSE,
   fields |-> <<<<>>, <<>>, <<>>>>]

NoCall == [which |-> "none", context |-> "none", ok |-> FALSE, address |-> 0]

NotSeen == [called |-> FALSE, ok |-> FALSE, address |-> 0]

\* DisassemblerObjdump::DisassemblerObjdump(cpu, memory_region, addr), with
\* the outcome of the objdump run it may start.
Construct(cpu, memory_region, addr, objdump) ==
  /\ pc = "unconstructed"
  /\ LET rejected == AddressOutsideRegion(memory_region, addr)
         ip_bytes_length == ReadLoop(memory_region, addr, 0)
         ip_bytes == IpBytes(addr, ip_bytes_length)
         raw_bytes_len == DisassembledLength(ip_bytes_length)
         dis == DisassembleInstruction(cpu, ip_bytes, raw_bytes_len, objdump)
         tok == TokenizeInstruction(dis.instruction)
         fields == IF rejected \/ ~dis.ok THEN <<<<>>, <<>>, <<>>>>
                   ELSE <<tok.operation, tok.dest, tok.src>>
     IN /\ operation_' = fields[1]
        /\ dest_' = fields[2]
        /\ src_' = fields[3]
        /\ ctor' = IF rejected
                   THEN [NotConstructed EXCEPT
                           !.cpu = cpu, !.memory_region = memory_region,
                           !.address = addr, !.rejected = TRUE]
                   ELSE [cpu |-> cpu, memory_region |-> memory_region,
                         address |-> addr, rejected |-> FALSE,
                         ip_bytes_length |-> ip_bytes_length,
                         raw_bytes |-> SubSeq(ip_bytes, 1, raw_bytes_len),
                         raw_bytes_len |-> raw_bytes_len,
                         objdump |-> objdump,
                         disassembled |-> dis.ok,
                         tokenized |-> dis.ok /\ tok.ok,
                         fields |-> fields]
  /\ pc' = "constructed"
  /\ UNCHANGED <<address, last, seen, calls, tok_in, tok_out, calc_in, calc_out>>

\* What a Calculate*Address call does to the caller's state: prior is the
\* content of the uint64_t the caller hands in.
Called(which, name, r) ==
  /\ address' = r.address
  /\ last' = [which |-> which, context |-> name, ok |-> r.ok,
              address |-> r.address]
  /\ seen' = IF seen[<<which, name>>].called THEN seen
             ELSE [seen EXCEPT ![<<which, name>>] =
                     [called |-> TRUE, ok |-> r.ok, address |-> r.address]]
  /\ calls' = calls + 1
  /\ UNCHANGED <<pc, operation_, dest_, src_, ctor,
                 tok_in, tok_out, calc_in, calc_out>>

\* bool CalculateSrcAddress(const DumpContext& context, uint64_t& address)
CalculateSrcAddress(name, prior) ==
  /\ pc = "constructed"
  /\ calls < MaxCalls
  /\ Called("src", name, CalculateAddress(Contexts[name], src_, prior))

\* bool CalculateDestAddress(const DumpContext& context, uint64_t& address)
CalculateDestAddress(name, prior) ==
  /\ pc = "constructed"
  /\ calls < MaxCalls
  /\ Called("dest", name, CalculateAddress(Contexts[name], dest_, prior))

(***************************************************************************)
(* The inputs of the constructor.                                          *)
(***************************************************************************)

\* Memory regions: in the middle of the address space, at its start, one
\* whose end base + size wraps around, and one that ends at the very top
\* (base + size wraps to 0).
MemoryRegions ==
  {[base |-> 4096, size |-> 32],
   [base |-> 0, size |-> 8],
   [base |-> UInt64Mod - 16, size |-> 32],
   [base |-> UInt64Mod - 16, size |-> 16]}

\* The addresses tried for a region: just below it, its first byte, three
\* bytes before its end, its last byte, and the two addresses after it.
AddressesFor(memory_region) ==
  {(memory_region.base + d) % UInt64Mod :
     d \in {UInt64Mod - 1, 0, memory_region.size - 3, memory_region.size - 1,
            memory_region.size, memory_region.size + 1}}

\* What objdump may print for the first instruction.
ObjdumpTexts ==
  {<<"c","m","p"," ","e","a","x",",","D","W","O","R","D"," ","P","T","R"," ","[","e","s","i","+","0","x","1","0","]">>,
   <<"l","o","c","k"," ","c","m","p","x","c","h","g"," ","D","W","O","R","D"," ","P","T","R"," ","[","e","s","i","+","0","x","1","0","]",",","e","a","x">>,
   <<"p","u","s","h"," ","e","a","x">>,
   <<"a","d","d"," ","B","Y","T","E"," ","P","T","R"," ","[","e","a","x","]",",","a","l">>,
   <<"m","o","v"," ","r","a","x",",","Q","W","O","R","D"," ","P","T","R"," ","[","r","b","x","+","r","c","x","*","8","-","0","x","8","]">>,
   <<"i","m","u","l"," ","e","a","x",",","D","W","O","R","D"," ","P","T","R"," ","[","e","b","x","]",",","0","x","1","0">>,
   <<"m","o","v"," ","D","W","O","R","D"," ","P","T","R"," ","[","e","s","i","+","0","x","1","0","]"," ","e","a","x">>,
   <<"m","o","v"," ","D","W","O","R","D"," ","P","T","R"," ","[","e","s","i","+","0","x","1","0","]",",">>,
   <<"n","o","p">>}

ObjdumpOutcomes == {ObjdumpFailed} \cup {ObjdumpPrinted(t) : t \in ObjdumpTexts}

Cpus == {MD_CONTEXT_X86, MD_CONTEXT_AMD64, MD_CONTEXT_ARM}

\* The contexts the instance is asked about.
CallContexts == {"x86", "amd64", "arm"}

\* A value the caller's variable may hold that no evaluation here returns.
Garbage == UInt64Mod - 2

NoTokenizeCall == [tokens |-> <<>>, style |-> "none", instruction |-> <<>>]

NoTokenizeResult ==
  [called |-> FALSE, ok |-> FALSE, operation |-> <<>>, dest |-> <<>>,
   src |-> <<>>]

NoCalculateCall ==
  [kind |-> "none", expression |-> <<>>, context |-> "arm",
   segment |-> "", base |-> "", index |-> "", stride |-> 0, stride_text |-> <<>>,
   sign |-> "", offset |-> 0]

NoCalculateResult ==
  [called |-> FALSE, ok |-> FALSE, address |-> 0, index_stride_value |-> 1,
   offset_value |-> 0]

Init ==
  /\ pc = "unconstructed"
  /\ operation_ = <<>>
  /\ dest_ = <<>>
  /\ src_ = <<>>
  /\ ctor = NotConstructed
  /\ address \in {0, Garbage}
  /\ last = NoCall
  /\ seen = [k \in {"src", "dest"} \X CallContexts |-> NotSeen]
  /\ calls = 0
  /\ tok_in = NoTokenizeCall
  /\ tok_out = NoTokenizeResult
  /\ calc_in = NoCalculateCall
  /\ calc_out = NoCalculateResult

Next ==
  \/ \E cpu \in Cpus, memory_region \in MemoryRegions, objdump \in ObjdumpOutcomes :
       \E addr \in AddressesFor(memory_region) :
         Construct(cpu, memory_region, addr, objdump)
  \/ \E name \in CallContexts, prior \in {address, Garbage} :
       CalculateSrcAddress(name, prior)
  \/ \E name \in CallContexts, prior \in {address, Garbage} :
       CalculateDestAddress(name, prior)

Spec == Init /\ [][Next]_vars

(***************************************************************************)
(* TokenizeInstruction called on its own.                                  *)
(*                                                                         *)
(* The instruction text is written out from a list of tokens, so that what *)
(* the tokenizer returns can be compared with the list it was written from.*)
(***************************************************************************)

TokenAlphabet ==
  {<<"l","o","c","k">>, <<"r","e","p","z">>, <<"c","m","p">>, <<"D","W","O","R","D">>, <<"P","T","R">>, <<",">>, <<"e","a","x">>,
   <<"[","e","s","i","+","0","x","1","0","]">>}

\* The instruction texts of the tokenizer's documented examples.
ExampleTokens ==
  {<<<<"c","m","p">>, <<"e","a","x">>, <<",">>, <<"D","W","O","R","D">>, <<"P","T","R">>, <<"[","e","s","i","+","0","x","1","0","]">>>>,
   <<<<"l","o","c","k">>, <<"c","m","p","x","c","h","g">>, <<"D","W","O","R","D">>, <<"P","T","R">>, <<"[","e","s","i","+","0","x","1","0","]">>, <<",">>, <<"e","a","x">>>>,
   <<<<"p","u","s","h">>, <<"e","a","x">>>>,
   <<<<"m","o","v">>, <<"e","a","x">>, <<",">>>>,
   <<<<"r","e","p">>, <<"m","o","v","s">>, <<"B","Y","T","E">>, <<"P","T","R">>, <<"e","s",":","[","e","d","i","]">>, <<",">>, <<"B","Y","T","E">>,
     <<"P","T","R">>, <<"d","s",":","[","e","s","i","]">>>>,
   <<<<"r","e","p","n","z">>, <<"s","c","a","s">>, <<"a","l">>, <<",">>, <<"B","Y","T","E">>, <<"P","T","R">>, <<"e","s",":","[","e","d","i","]">>>>,
   <<<<"i","m","u","l">>, <<"e","a","x">>, <<",">>, <<"D","W","O","R","D">>, <<"P","T","R">>, <<"[","e","b","x","]">>, <<",">>, <<"0","x","1","0">>>>,
   <<<<"c","a","l","l">>, <<"0","x","1","0">>, <<"<",".","d","a","t","a","+","0","x","1","0",">">>>>,
   <<<<"m","o","v">>, <<"e","a","x">>, <<",">>, <<"Q","W","O","R","D">>, <<"W","O","R","D">>, <<"[","r","a","x","]">>, <<"j","u","n","k">>, <<"m","o","r","e">>>>}

TokenLists ==
  ExampleTokens \cup UNION {[1..n -> TokenAlphabet] : n \in 0..MaxTokens}

\* "tight" is objdump's own layout: one space between two tokens, none
\* around a comma.  "spaced" puts whitespace before, between and after all.
Styles == {"tight", "spaced"}

Separator(style, left, right) ==
  IF style = "spaced" THEN <<" ", "\t">>
  ELSE IF left = <<",">> \/ right = <<",">> THEN <<>>
  ELSE <<" ">>

RECURSIVE WriteFrom(_, _, _)
WriteFrom(tokens, i, style) ==
  IF i > Len(tokens) THEN <<>>
  ELSE IF i = Len(tokens) THEN tokens[i]
  ELSE tokens[i] \o Separator(style, tokens[i], tokens[i + 1])
         \o WriteFrom(tokens, i + 1, style)

WriteInstruction(tokens, style) ==
  IF style = "spaced" THEN <<" ">> \o WriteFrom(tokens, 1, style) \o <<" ">>
  ELSE WriteFrom(tokens, 1, style)

TokenizeInit ==
  /\ pc = "unconstructed"
  /\ operation_ = <<>>
  /\ dest_ = <<>>
  /\ src_ = <<>>
  /\ ctor = NotConstructed
  /\ address = 0
  /\ last = NoCall
  /\ seen = [k \in {"src", "dest"} \X CallContexts |-> NotSeen]
  /\ calls = 0
  /\ \E tokens \in TokenLists, style \in Styles :
       tok_in = [tokens |-> tokens, style |-> style,
                 instruction |-> WriteInstruction(tokens, style)]
  /\ tok_out = NoTokenizeResult
  /\ calc_in = NoCalculateCall
  /\ calc_out = NoCalculateResult

\* The call TokenizeInstruction(instruction, operation, dest, src).
TokenizeCall ==
  /\ ~tok_out.called
  /\ LET r == TokenizeInstruction(tok_in.instruction) IN
       tok_out' = [called |-> TRUE, ok |-> r.ok, operation |-> r.operation,
                   dest |-> r.dest, src |-> r.src]
  /\ UNCHANGED <<pc, operation_, dest_, src_, ctor, address, last, seen,
                 calls, tok_in, calc_in, calc_out>>

TokenizeNext == TokenizeCall

TokenizeSpec == TokenizeInit /\ [][TokenizeNext]_vars

(***************************************************************************)
(* CalculateAddress called on its own.                                     *)
(*                                                                         *)
(* A well-formed operand is written out from its pieces (kind "operand");  *)
(* the other texts (kind "other") are operands that are no memory          *)
(* reference of the supported form.  Names and numbers are drawn with the  *)
(* raw-context field and the number their text stands for.                 *)
(***************************************************************************)

\* name: the raw-context field, text: how the operand spells it.
NoName == [name |-> "", text |-> <<>>]

SegmentChoices ==
  {NoName,
   [name |-> "ds", text |-> <<"d","s">>], [name |-> "es", text |-> <<"e","s">>],
   [name |-> "fs", text |-> <<"f","s">>], [name |-> "gs", text |-> <<"g","s">>],
   [name |-> "cs", text |-> <<"c","s">>]}

BaseChoices ==
  {[name |-> "esi", text |-> <<"e","s","i">>], [name |-> "eax", text |-> <<"e","a","x">>],
   [name |-> "rax", text |-> <<"r","a","x">>], [name |-> "r8", text |-> <<"r","8">>],
   [name |-> "ax", text |-> <<"a","x">>], [name |-> "rsi", text |-> <<"r","s","i">>]}

IndexChoices ==
  {NoName,
   [name |-> "edi", text |-> <<"e","d","i">>], [name |-> "rcx", text |-> <<"r","c","x">>],
   [name |-> "eiz", text |-> <<"e","i","z">>]}

\* value: the digits read as a decimal number.
StrideChoices ==
  {[value |-> 1, text |-> <<"1">>], [value |-> 4, text |-> <<"4">>],
   [value |-> 8, text |-> <<"8">>], [value |-> 10, text |-> <<"1","0">>],
   [value |-> 10, text |-> <<"0","1","0">>], [value |-> 8, text |-> <<"0","8">>]}

\* value: the digits after "0x" read as a hexadecimal number.
NoOffset == [sign |-> "", value |-> 0, text |-> <<>>]

OffsetChoices ==
  {NoOffset,
   [sign |-> "+", value |-> 128, text |-> <<"0","x","8","0">>],
   [sign |-> "-", value |-> 4, text |-> <<"0","x","4">>],
   [sign |-> "+", value |-> 65535, text |-> <<"0","x","f","f","f","f">>],
   [sign |-> "-", value |-> 2748, text |-> <<"0","x","a","b","c">>]}

WriteOperand(segment, base, index, stride, offset) ==
  (IF segment = NoName THEN <<>> ELSE segment.text \o <<":">>)
    \o <<"[">> \o base.text
    \o (IF index = NoName THEN <<>>
        ELSE <<"+">> \o index.text \o <<"*">> \o stride.text)
    \o (IF offset = NoOffset THEN <<>> ELSE <<offset.sign>> \o offset.text)
    \o <<"]">>

\* Operands that are not of the form (segment:)[base(+index*stride)(+-0xhex)].
OtherOperands ==
  {<<>>, <<"e","a","x">>, <<"0","x","1","0">>, <<"D","W","O","R","D">>, <<"[","]">>, <<"[","e","s","i">>, <<"e","s","i","]">>,
   <<"f","s",":","e","s","i">>, <<"f","s",":">>, <<"f","s","s",":","[","e","s","i","]">>, <<":","[","e","s","i","]">>, <<"[","e","s","i","+","e","d","i","]">>,
   <<"[","e","s","i","*","4","]">>, <<"[","e","s","i","+","e","d","i","*","]">>, <<"[","e","s","i","+","e","d","i","*","0","x","4","]">>, <<"[","e","s","i","-","e","d","i","*","4","]">>,
   <<"[","e","s","i","+","e","d","i","*","4","*","2","]">>, <<"[","e","s","i","+","0","x","]">>, <<"[","e","s","i","+","0","X","8","0","]">>, <<"[","e","s","i","+","0","x","A","B","]">>,
   <<"[","e","s","i","+","8","0","]">>, <<"[","e","s","i","+","0","x","8","0","+","0","x","4","]">>, <<"[","e","s","i","+","0","x","8","0","]","x">>, <<" ","[","e","s","i","]">>,
   <<"[","e","s","i","]"," ">>, <<"[","e","s","i","+","0","x","8","g","]">>, <<"[","+","0","x","8","0","]">>, <<"[","e"," ","s","i","]">>}

\* The calls drawn: every context with every operand written from pieces, and
\* with every other text.
WrittenOperandCalls ==
  {[kind |-> "operand",
    expression |-> WriteOperand(c[2], c[3], c[4], c[5], c[6]),
    context |-> c[1],
    segment |-> c[2].name, base |-> c[3].name, index |-> c[4].name,
    stride |-> IF c[4] = NoName THEN 1 ELSE c[5].value,
    stride_text |-> IF c[4] = NoName THEN <<>> ELSE c[5].text,
    sign |-> c[6].sign, offset |-> c[6].value] :
   c \in ContextNames \X SegmentChoices \X BaseChoices \X IndexChoices
           \X StrideChoices \X OffsetChoices}

OtherOperandCalls ==
  {[NoCalculateCall EXCEPT !.kind = "other", !.expression = c[2],
                           !.context = c[1]] :
   c \in ContextNames \X OtherOperands}

CalculateInit ==
  /\ pc = "unconstructed"
  /\ operation_ = <<>>
  /\ dest_ = <<>>
  /\ src_ = <<>>
  /\ ctor = NotConstructed
  /\ address \in {0, Garbage}
  /\ last = NoCall
  /\ seen = [k \in {"src", "dest"} \X CallContexts |-> NotSeen]
  /\ calls = 0
  /\ tok_in = NoTokenizeCall
  /\ tok_out = NoTokenizeResult
  /\ calc_in \in WrittenOperandCalls \cup OtherOperandCalls
  /\ calc_out = NoCalculateResult

\* The call CalculateAddress(context, expression, address).
CalculateCall ==
  /\ ~calc_out.called
  /\ LET r == CalculateAddress(Contexts[calc_in.context], calc_in.expression,
                               address)
     IN /\ calc_out' = [called |-> TRUE, ok |-> r.ok, address |-> r.address,
                        index_stride_value |-> r.index_stride_value,
                        offset_value |-> r.offset_value]
        /\ address' = r.address
  /\ UNCHANGED <<pc, operation_, dest_, src_, ctor, last, seen, calls,
                 tok_in, tok_out, calc_in>>

CalculateNext == CalculateCall

CalculateSpec == CalculateInit /\ [][CalculateNext]_vars

(***************************************************************************)
(* Properties of the constructed instance (checked under Spec).            *)
(***************************************************************************)

\* The address given to the constructor lies in [base, base + size), the
\* bounds taken as unbounded integers.
InsideRegion ==
  /\ ctor.memory_region.base <= ctor.address
  /\ ctor.address < ctor.memory_region.base + ctor.memory_region.size

\* No context makes either operand of the instance evaluate to an address.
Inert ==
  \A name \in ContextNames, prior \in {0, Garbage} :
    /\ ~CalculateAddress(Contexts[name], src_, prior).ok
    /\ ~CalculateAddress(Contexts[name], dest_, prior).ok

\* C1: an instance constructed with an address outside
\* [region.base, region.base + region.size) is inert: for every architecture
\* tag given to the constructor and every CPU context, CalculateSrcAddress
\* and CalculateDestAddress fail on every later call, also for a region whose
\* base + size wraps around.
C1_OutsideRegionIsInert ==
  (pc = "constructed" /\ ~InsideRegion) =>
    /\ Inert
    /\ last.which # "none" => ~last.ok
    /\ \A k \in DOMAIN seen : seen[k].called => ~seen[k].ok

\* An instance constructed just past the end of a region whose end wraps
\* around has been asked for both addresses, the maximal number of times.
C1_Witness ==
  /\ pc = "constructed"
  /\ ~InsideRegion
  /\ ctor.memory_region.base + ctor.memory_region.size > UInt64Mod
  /\ calls = MaxCalls
  /\ \E n1, n2 \in CallContexts :
       seen[<<"src", n1>>].called /\ seen[<<"dest", n2>>].called

\* C2: when disassembly or tokenization failed during construction, every
\* later CalculateDestAddress and CalculateSrcAddress call fails: no operand
\* recognised before the failure is evaluated to an address.
C2_FailedConstructionIsInert ==
  (pc = "constructed" /\ ~ctor.tokenized /\ last.which # "none") => ~last.ok

\* C9: after construction the stored operation, dest and src never change,
\* and a call returns the same success flag and the same address as the first
\* call of that function with that context did, whatever calls came between
\* and whatever the output variable held before.
C9_EvaluationIsPure ==
  pc = "constructed" =>
    /\ <<operation_, dest_, src_>> = ctor.fields
    /\ last.which # "none" =>
         LET first == seen[<<last.which, last.context>>] IN
         /\ first.called
         /\ first.ok = last.ok
         /\ first.address = last.address
         /\ address = last.address

\* One function has been called with one context MaxCalls times in a row, at
\* least three, on an instance whose operand is a memory reference, and the
\* last call succeeded with a non-zero address.
C9_Witness ==
  /\ pc = "constructed"
  /\ calls = MaxCalls
  /\ calls >= 3
  /\ Cardinality({k \in DOMAIN seen : seen[k].called}) = 1
  /\ last.ok
  /\ last.address # 0

\* C10: the constructor hands DisassembleInstruction only bytes it read: the
\* byte count passed equals the number of bytes read before the first failed
\* read (15 at most), so none of the bytes handed over is zero padding.
C10_OnlyReadBytesDisassembled ==
  (pc = "constructed" /\ ~ctor.rejected) =>
    /\ ctor.raw_bytes_len = ctor.ip_bytes_length
    /\ \A i \in 1..Len(ctor.raw_bytes) : ctor.raw_bytes[i][1] = "byte"

(***************************************************************************)
(* Properties of CalculateAddress (checked under CalculateSpec).           *)
(***************************************************************************)

X86Registers == {"eax", "ebx", "ecx", "edx", "edi", "esi", "ebp", "esp", "eip"}

AMD64Registers ==
  {"rax", "rbx", "rcx", "rdx", "rdi", "rsi", "rbp", "rsp", "r8", "r9", "r10",
   "r11", "r12", "r13", "r14", "r15", "rip"}

RegisterNames(cpu) ==
  IF cpu = MD_CONTEXT_X86 THEN X86Registers
  ELSE IF cpu = MD_CONTEXT_AMD64 THEN AMD64Registers
  ELSE {}

SegmentNames(cpu) ==
  IF cpu = MD_CONTEXT_X86 THEN {"ds", "es", "fs", "gs"}
  ELSE IF cpu = MD_CONTEXT_AMD64 THEN {"ds", "es"}
  ELSE {}

CalcContext == Contexts[calc_in.context]

\* Every name of the operand the call was given resolves under the
\* architecture of its context.
NamesResolve ==
  /\ calc_in.base \in RegisterNames(CalcContext.cpu)
  /\ calc_in.index = "" \/ calc_in.index \in RegisterNames(CalcContext.cpu)
  /\ calc_in.segment = "" \/ calc_in.segment \in SegmentNames(CalcContext.cpu)

\* C3: CalculateAddress succeeds if and only if the operand is of the form
\* (segment:)[base(+index*stride)((+|-)0xhex)] and its base, index and
\* segment all resolve under the context's architecture; a bare register, an
\* immediate, an empty operand, a name of the other architecture, fs or gs
\* on AMD64 and a context of another architecture all make it fail.
C3_SucceedsIffOperandResolves ==
  calc_out.called =>
    (calc_out.ok <=> (calc_in.kind = "operand" /\ NamesResolve))

\* A well-formed operand whose base is an AMD64 register has failed on an
\* AMD64 context, its segment being fs.
C3_Witness ==
  /\ calc_out.called
  /\ ~calc_out.ok
  /\ calc_in.kind = "operand"
  /\ CalcContext.cpu = MD_CONTEXT_AMD64
  /\ calc_in.segment = "fs"
  /\ calc_in.base \in AMD64Registers
  /\ calc_in.index = ""

\* The value a name stands for in the call's context (0 for an absent one,
\* and for ds and es on AMD64).
SegmentValue ==
  IF calc_in.segment = "" \/ CalcContext.cpu = MD_CONTEXT_AMD64 THEN 0
  ELSE CalcContext.raw[calc_in.segment]

BaseValue == CalcContext.raw[calc_in.base]

IndexValue == IF calc_in.index = "" THEN 0 ELSE CalcContext.raw[calc_in.index]

\* segment + base + index * stride +/- offset, wrapped to 64 bits, the
\* stride read as a decimal and the offset as a hexadecimal number.
ExpectedAddress ==
  LET sum == SegmentValue + BaseValue + IndexValue * calc_in.stride IN
  IF calc_in.sign = "-" THEN (sum - calc_in.offset) % UInt64Mod
  ELSE (sum + calc_in.offset) % UInt64Mod

\* C4: for an operand that matches the grammar and whose names resolve, the
\* address returned is segment + base + index * stride + offset (sign "+")
\* or segment + base + index * stride - offset (sign "-") modulo 2^64, absent
\* pieces counting as segment 0, index 0, stride 1, offset 0.
C4_AddressIsTheWrappedSum ==
  (calc_out.called /\ calc_out.ok /\ calc_in.kind = "operand") =>
    calc_out.address = ExpectedAddress

\* The same for the operands whose stride has no leading zero.
AddressIsTheWrappedSumWithoutLeadingZero ==
  (calc_out.called /\ calc_out.ok /\ calc_in.kind = "operand"
     /\ At(calc_in.stride_text, 1) # "0") =>
    calc_out.address = ExpectedAddress

\* C5: the stride an operand is evaluated with is its digit string read as a
\* decimal integer, leading zeros included.
C5_StrideIsDecimal ==
  (calc_out.called /\ calc_out.ok /\ calc_in.index # "") =>
    calc_out.index_stride_value = calc_in.stride

\* The call "fs:[esi+edi*4+0x80]" on an x86 context with esi = 0x1000,
\* edi = 0x10 and fs = 0x2000 has returned.
C6_Case ==
  /\ calc_out.called
  /\ calc_in.expression = <<"f","s",":","[","e","s","i","+","e","d","i","*","4","+","0","x","8","0","]">>
  /\ CalcContext.cpu = MD_CONTEXT_X86
  /\ CalcContext.raw.esi = 4096
  /\ CalcContext.raw.edi = 16
  /\ CalcContext.raw.fs = 8192

\* C6 as stated: that call succeeds and yields 0x3080.
C6_ExampleYields0x3080 ==
  C6_Case => (calc_out.ok /\ calc_out.address = 12416)

\* C6 as amended: that call succeeds and yields 0x30c0
\* (0x2000 + 0x1000 + 0x10 * 4 + 0x80).
C6_ExampleYields0x30c0 ==
  C6_Case => (calc_out.ok /\ calc_out.address = 12480)

C6_Witness == C6_Case /\ calc_out.ok

(***************************************************************************)
(* Properties of TokenizeInstruction (checked under TokenizeSpec).         *)
(***************************************************************************)

PrefixTokens == {<<"l","o","c","k">>, <<"r","e","p">>, <<"r","e","p","z">>, <<"r","e","p","n","z">>}

SizeTokens == {<<"B","Y","T","E">>, <<"W","O","R","D">>, <<"D","W","O","R","D">>, <<"Q","W","O","R","D">>, <<"P","T","R">>}

\* The least position after `after` whose token is not in `skipped`, or 0.
FirstNotIn(tokens, after, skipped) ==
  LET at == {i \in (after + 1)..Len(tokens) : tokens[i] \notin skipped} IN
  IF at = {} THEN 0 ELSE CHOOSE i \in at : \A j \in at : i <= j

\* The positions of the operation, of dest, and of src in the token list the
\* instruction was written from (0: there is none).
OperationAt == FirstNotIn(tok_in.tokens, 0, PrefixTokens)

DestAt ==
  IF OperationAt = 0 THEN 0
  ELSE FirstNotIn(tok_in.tokens, OperationAt, SizeTokens)

CommaAfterDest ==
  DestAt # 0 /\ DestAt < Len(tok_in.tokens) /\ tok_in.tokens[DestAt + 1] = <<",">>

SrcAt ==
  IF CommaAfterDest THEN FirstNotIn(tok_in.tokens, DestAt + 1, SizeTokens)
  ELSE 0

\* (i) the token that follows dest is not a comma
NoCommaAfterDest ==
  DestAt # 0 /\ DestAt < Len(tok_in.tokens) /\ tok_in.tokens[DestAt + 1] # <<",">>

\* (ii) a comma appears after src has been taken
CommaAfterSrc ==
  SrcAt # 0 /\ \E i \in (SrcAt + 1)..Len(tok_in.tokens) : tok_in.tokens[i] = <<",">>

\* (iii) a comma was consumed after dest but no src follows it
NoSrcAfterComma == CommaAfterDest /\ SrcAt = 0

TokenAt(i) == IF i = 0 THEN <<>> ELSE tok_in.tokens[i]

\* C7: TokenizeInstruction fails exactly when the token after dest is not a
\* comma, or a comma appears after src, or a comma was consumed and no src
\* follows; every other instruction is accepted, whatever its operands.
C7_FailsExactlyOnStructure ==
  tok_out.called =>
    (~tok_out.ok <=> (NoCommaAfterDest \/ CommaAfterSrc \/ NoSrcAfterComma))

\* "mov eax," has been tokenized as objdump lays it out, and has failed.
C7_Witness ==
  /\ tok_out.called
  /\ ~tok_out.ok
  /\ tok_in.instruction = <<"m","o","v"," ","e","a","x",",">>
  /\ NoSrcAfterComma

\* C8: on success operation is the first token that is no instruction
\* prefix, dest the first token after it that is no size keyword, src the
\* first token after the separating comma that is no size keyword, each
\* empty when there is none; with the three documented examples.
C8_OperandsAreTheFirstPlainTokens ==
  tok_out.called =>
    /\ tok_out.ok =>
         /\ tok_out.operation = TokenAt(OperationAt)
         /\ tok_out.dest = TokenAt(DestAt)
         /\ tok_out.src = TokenAt(SrcAt)
    /\ tok_in.instruction = <<"c","m","p"," ","e","a","x",",","D","W","O","R","D"," ","P","T","R"," ","[","e","s","i","+","0","x","1","0","]">> =>
         /\ tok_out.ok
         /\ tok_out.operation = <<"c","m","p">>
         /\ tok_out.dest = <<"e","a","x">>
         /\ tok_out.src = <<"[","e","s","i","+","0","x","1","0","]">>
    /\ tok_in.instruction = <<"l","o","c","k"," ","c","m","p","x","c","h","g"," ","D","W","O","R","D"," ","P","T","R"," ","[","e","s","i","+","0","x","1","0","]",",","e","a","x">> =>
         /\ tok_out.ok
         /\ tok_out.operation = <<"c","m","p","x","c","h","g">>
         /\ tok_out.dest = <<"[","e","s","i","+","0","x","1","0","]">>
         /\ tok_out.src = <<"e","a","x">>
    /\ tok_in.instruction = <<"p","u","s","h"," ","e","a","x">> =>
         /\ tok_out.ok
         /\ tok_out.dest = <<"e","a","x">>
         /\ tok_out.src = <<>>

\* "lock cmpxchg DWORD PTR [esi+0x10],eax" has been tokenized with success.
C8_Witness ==
  /\ tok_out.called
  /\ tok_out.ok
  /\ tok_in.instruction = <<"l","o","c","k"," ","c","m","p","x","c","h","g"," ","D","W","O","R","D"," ","P","T","R"," ","[","e","s","i","+","0","x","1","0","]",",","e","a","x">>
  /\ tok_out.dest = <<"[","e","s","i","+","0","x","1","0","]">>

=============================================================================
